---- MODULE Spec2Model ----
(***************************************************************************)
(* Client-side quiz session of frontend/script.js: the appState object,    *)
(* the part of the page the handlers read back (the rendered question's    *)
(* inputs, the overlay, the navigation buttons) and one action per event   *)
(* handler or per resumption of the async generateQuiz.                    *)
(*                                                                         *)
(* JavaScript strings are sequences of one-character strings, so that the  *)
(* conversions of the code (number -> attribute text, text -> HTML         *)
(* attribute -> input value) are computed and not assumed.                 *)
(***************************************************************************)
EXTENDS Integers, Sequences, FiniteSets, TLC

\* Bounds of the model.
MaxQ == 2          \* longest question set the generator returns
MaxFiles == 1      \* longest appState.files
MaxInflight == 2   \* most generateQuiz invocations suspended at an await
MaxTime == 1       \* last reading of the clock

\* addFiles: file.size <= 10 * 1024 * 1024
MaxFileSize == 10485760

VARIABLES
    files,                 \* appState.files
    quiz,                  \* appState.quiz: [defined, items]; null/undefined is defined = FALSE
    currentQuestionIndex,  \* appState.currentQuestionIndex (0-based)
    answers,               \* appState.answers: function from indices to strings
    isGenerating,          \* appState.isGenerating
    inflight,              \* how many generateQuiz invocations are suspended at each await
    quizContent,           \* what displayQuestion last put into #quizContent
    loadingShown,          \* loadingOverlay.style.display = 'flex'
    prevDisabled,          \* prevBtn.disabled
    nextDisabled,          \* nextBtn.disabled
    lastCall,              \* the handler (or resumption) that ran last and how it ended
    trip,                  \* history: an answer recorded, then one step away, then one step back
    exported,              \* the content of the last Blob downloadQuiz handed to the browser
    now,                   \* the clock new Date() reads
    loadedAt               \* history: the clock when appState.quiz was last assigned

vars == <<files, quiz, currentQuestionIndex, answers, isGenerating, inflight,
          quizContent, loadingShown, prevDisabled, nextDisabled,
          lastCall, trip, exported, now, loadedAt>>

----------------------------------------------------------------------------
\* Strings and JavaScript values

TrueStr == <<"t", "r", "u", "e">>
FalseStr == <<"f", "a", "l", "s", "e">>
EmptyStr == <<>>
Quote == "\""

\* What the user can type into the short-answer input.
TextPool == { <<"a">>, <<"a", Quote, "b">> }

DigitChars == <<"0", "1", "2", "3", "4", "5", "6", "7", "8", "9">>

\* `${index}` in a template literal, for the indices the model renders.
NumberToString(n) == <<DigitChars[n + 1]>>

JSString(s) == [type |-> "string", value |-> s]
JSNumber(n) == [type |-> "number", value |-> n]
JSUndefined == [type |-> "undefined", value |-> 0]

\* a === b: no conversion, values of different types are never equal.
StrictEquals(a, b) == IF a.type = b.type THEN a.value = b.value ELSE FALSE

\* a || '' for a string or undefined.
OrEmpty(a) == IF a.type = "string" /\ a.value # EmptyStr THEN a.value ELSE EmptyStr

RECURSIVE UpToQuote(_)
UpToQuote(s) ==
    IF s = <<>> \/ Head(s) = Quote THEN <<>> ELSE <<Head(s)>> \o UpToQuote(Tail(s))

\* value="${s}" as the HTML parser reads it: the attribute ends at the first quote.
AttributeValue(s) == UpToQuote(s)

----------------------------------------------------------------------------
\* Questions and the generator's responses

Kinds == <<"multiple_choice", "true_false", "short_answer", "fill_in_the_blank">>

OptionLabels == <<"A", "B">>

Question(kind) ==
    [type |-> kind,
     options |-> IF kind \in {"multiple_choice", "fill_in_the_blank"} THEN OptionLabels ELSE <<>>]

\* The question sets the generator answers with: every length up to MaxQ
\* (the empty one included), every kind at every position.
Rotation(start, len) ==
    [i \in 1..len |-> Question(Kinds[((start + i - 2) % Len(Kinds)) + 1])]

ResponseQuizzes == { Rotation(s, l) : s \in 1..Len(Kinds), l \in 0..MaxQ }

NoQuiz == [defined |-> FALSE, items |-> <<>>]
Loaded(items) == [defined |-> TRUE, items |-> items]

\* data.quiz of a parsed response: a question set, or undefined when the field is missing.
ResponseData == { Loaded(q) : q \in ResponseQuizzes } \cup { NoQuiz }

NoAnswers == [k \in {} |-> EmptyStr]

----------------------------------------------------------------------------
\* Messages

NoQuestionsMsg == "No questions generated"
NoFilesMsg == "Please select at least one file"
InvalidFilesMsg == "Please select valid files (PDF, DOCX, TXT, DOC) under 10MB"
FailedMsg == "Failed to generate quiz"
FetchErrorMsg == "Failed to fetch"
JsonErrorMsg == "Unexpected token in JSON"
TypeErrorMsg == "Cannot read properties of undefined"

\* outcome: "ok" (ran to its end), "noop" (its guard was false), "pending"
\* (suspended at an await), "caught" (the catch block of generateQuiz ran),
\* "uncaught" (an exception left the handler). error: the last message given
\* to showError, "" for none.
Call(op, outcome, error) == [op |-> op, outcome |-> outcome, error |-> error]

\* History of the last calls, for the round trip record / step away / step back:
\* stage 1 after a saveAnswer event wrote value at index, stage 2 after the
\* navigation step that followed it left index, stage 3 after the navigation
\* step that followed that one came back to index; stage 0 otherwise.
NoTrip == [stage |-> 0, index |-> 0, value |-> EmptyStr]

----------------------------------------------------------------------------
\* #quizContent: the question displayQuestion rendered and its inputs

EmptyContent ==
    [question |-> <<>>, radios |-> <<>>, checked |-> 0, hasText |-> FALSE, text |-> EmptyStr]

\* The radio of a group that ends up checked, given which of them carry the
\* checked attribute: the last one in document order, 0 for none.
CheckedRadio(flags) ==
    IF \E i \in DOMAIN flags : flags[i]
    THEN CHOOSE i \in DOMAIN flags : flags[i] /\ \A j \in DOMAIN flags : flags[j] => j <= i
    ELSE 0

\* appState.answers[index]
SavedAnswer(ans, index) ==
    IF index \in DOMAIN ans THEN JSString(ans[index]) ELSE JSUndefined

\* The switch of displayQuestion: the inputs rendered for one question.
Render(question, savedAnswer) ==
    CASE question.type \in {"multiple_choice", "fill_in_the_blank"} ->
           [question |-> <<question>>,
            radios |-> [i \in DOMAIN question.options |-> NumberToString(i - 1)],
            checked |-> CheckedRadio([i \in DOMAIN question.options |->
                                         StrictEquals(savedAnswer, JSNumber(i - 1))]),
            hasText |-> FALSE,
            text |-> EmptyStr]
      [] question.type = "true_false" ->
           [question |-> <<question>>,
            radios |-> <<TrueStr, FalseStr>>,
            checked |-> CheckedRadio(<<StrictEquals(savedAnswer, JSString(TrueStr)),
                                       StrictEquals(savedAnswer, JSString(FalseStr))>>),
            hasText |-> FALSE,
            text |-> EmptyStr]
      [] question.type = "short_answer" ->
           [question |-> <<question>>,
            radios |-> <<>>,
            checked |-> 0,
            hasText |-> TRUE,
            text |-> AttributeValue(OrEmpty(savedAnswer))]
      [] OTHER ->
           [question |-> <<question>>, radios |-> <<>>, checked |-> 0,
            hasText |-> FALSE, text |-> EmptyStr]

\* displayQuestion(): the new #quizContent, the message given to showError
\* ("" for none) and whether it threw (appState.quiz[index] undefined).
displayQuestion(qz, index, ans, content) ==
    IF ~qz.defined \/ Len(qz.items) = 0
    THEN [content |-> content, error |-> NoQuestionsMsg, threw |-> FALSE]
    ELSE IF index + 1 \notin DOMAIN qz.items
    THEN [content |-> content, error |-> "", threw |-> TRUE]
    ELSE [content |-> Render(qz.items[index + 1], SavedAnswer(ans, index)),
          error |-> "", threw |-> FALSE]

\* updateNavigation with nextBtn disabled at `index === quiz.length`.
updateNavigation_NextOffByOne(qz, index, next) ==
    IF ~qz.defined
    THEN [prev |-> (index = 0), next |-> next, threw |-> TRUE]
    ELSE [prev |-> (index = 0), next |-> (index = Len(qz.items)), threw |-> FALSE]

\* updateNavigation(): prevBtn.disabled is assigned first, then reading
\* appState.quiz.length throws when there is no quiz.
updateNavigation(qz, index, next) ==
    IF ~qz.defined
    THEN [prev |-> (index = 0), next |-> next, threw |-> TRUE]
    ELSE [prev |-> (index = 0), next |-> (index = Len(qz.items) - 1), threw |-> FALSE]

\* displayQuestion(); updateNavigation(); as every caller runs them.
Redisplay(qz, index, ans, content, prev, next) ==
    LET dq == displayQuestion(qz, index, ans, content)
        un == updateNavigation(qz, index, next)
    IN  IF dq.threw
        THEN [content |-> dq.content, error |-> dq.error, prev |-> prev, next |-> next,
              threw |-> TRUE]
        ELSE [content |-> dq.content, error |-> dq.error, prev |-> un.prev, next |-> un.next,
              threw |-> un.threw]

\* saveAnswer that assigns a fresh object holding only the entry it writes.
saveAnswer_DropsOthers(ans, index, content) ==
    IF content.checked # 0
    THEN [k \in {index} |-> content.radios[content.checked]]
    ELSE IF content.hasText
    THEN [k \in {index} |-> content.text]
    ELSE ans

\* saveAnswer(): appState.answers after the call, read from the inputs on the page.
saveAnswer(ans, index, content) ==
    IF content.checked # 0
    THEN [k \in DOMAIN ans \cup {index} |->
              IF k = index THEN content.radios[content.checked] ELSE ans[k]]
    ELSE IF content.hasText
    THEN [k \in DOMAIN ans \cup {index} |-> IF k = index THEN content.text ELSE ans[k]]
    ELSE ans

----------------------------------------------------------------------------
\* Files

ValidExtensions == {"pdf", "docx", "txt", "doc"}

CandidateFiles ==
    { [ext |-> "pdf", size |-> 1024],
      [ext |-> "exe", size |-> 1024],
      [ext |-> "pdf", size |-> MaxFileSize + 1] }

\* The filter of addFiles.
IsValidFile(file) == file.ext \in ValidExtensions /\ file.size <= MaxFileSize

\* What one file dialog or one drop hands to addFiles.
Batches ==
    { <<f>> : f \in CandidateFiles }
    \cup { <<f, g>> : f \in { h \in CandidateFiles : IsValidFile(h) }, g \in CandidateFiles }

NoneInflight == [fetch |-> 0, json |-> 0]
InflightCount == inflight.fetch + inflight.json

RemoveAt(s, i) == [j \in 1..(Len(s) - 1) |-> IF j < i THEN s[j] ELSE s[j + 1]]

----------------------------------------------------------------------------
\* The export: JSON.stringify({questions, answers, timestamp})

\* The integer keys of an object in the order JSON.stringify visits them: ascending.
OwnKeys(ans) ==
    CHOOSE s \in [1..Cardinality(DOMAIN ans) -> DOMAIN ans] :
        \A i, j \in DOMAIN s : i < j => s[i] < s[j]

\* JSON.stringify(appState.answers): one "key": "value" member per own key,
\* the key written as a string.
StringifyAnswers(ans) ==
    LET keys == OwnKeys(ans)
    IN  [i \in DOMAIN keys |-> [key |-> NumberToString(keys[i]), value |-> ans[keys[i]]]]

\* No Blob was made yet.
NoExport == [made |-> FALSE, questions |-> NoQuiz, answers |-> <<>>, timestamp |-> 0]

----------------------------------------------------------------------------
Init ==
    /\ files = <<>>
    /\ quiz = NoQuiz
    /\ currentQuestionIndex = 0
    /\ answers = NoAnswers
    /\ isGenerating = FALSE
    /\ inflight = NoneInflight
    /\ quizContent = EmptyContent
    /\ loadingShown = FALSE
    /\ prevDisabled \in BOOLEAN
    /\ nextDisabled \in BOOLEAN
    /\ lastCall = Call("load", "ok", "")
    /\ trip = NoTrip
    /\ exported = NoExport
    /\ now = 0
    /\ loadedAt = 0

session == <<quiz, currentQuestionIndex, answers>>
page == <<quizContent, prevDisabled, nextDisabled>>
sink == <<exported, now, loadedAt>>

\* addFiles(files), reached from handleFileSelect and handleDrop.
addFiles(batch) ==
    LET validFiles == SelectSeq(batch, IsValidFile)
    IN  /\ Len(files) + Len(validFiles) <= MaxFiles
        /\ IF Len(validFiles) = 0
           THEN /\ lastCall' = Call("addFiles", "ok", InvalidFilesMsg)
                /\ files' = files
           ELSE /\ files' = files \o validFiles
                /\ lastCall' = Call("addFiles", "ok", "")
        /\ UNCHANGED <<session, page, isGenerating, inflight, loadingShown>>
        /\ trip' = NoTrip
        /\ UNCHANGED sink

\* removeFile(index), from the button displayFiles renders for each file.
removeFile(index) ==
    /\ index \in DOMAIN files
    /\ files' = RemoveAt(files, index)
    /\ lastCall' = Call("removeFile", "ok", "")
    /\ UNCHANGED <<session, page, isGenerating, inflight, loadingShown>>
    /\ trip' = NoTrip
    /\ UNCHANGED sink

\* clearFiles(): besides emptying the list it hides the settings section.
clearFiles ==
    /\ files' = <<>>
    /\ lastCall' = Call("clearFiles", "ok", "")
    /\ UNCHANGED <<session, page, isGenerating, inflight, loadingShown>>
    /\ trip' = NoTrip
    /\ UNCHANGED sink

\* handleGenerateQuiz(): the click on generateBtn. With files it opens the
\* settings section (styling only, no session state); without, it shows an error.
handleGenerateQuiz ==
    /\ lastCall' = Call("handleGenerateQuiz", "ok", IF Len(files) = 0 THEN NoFilesMsg ELSE "")
    /\ UNCHANGED <<files, session, page, isGenerating, inflight, loadingShown>>
    /\ trip' = NoTrip
    /\ UNCHANGED sink

----------------------------------------------------------------------------
\* generateQuiz: the synchronous part up to the fetch, then one action for
\* each way each await can resume.

\* generateQuiz() up to `await fetch(...)`: the request is sent whatever
\* appState.files and appState.isGenerating are.
generateQuiz ==
    /\ InflightCount < MaxInflight
    /\ loadingShown' = TRUE
    /\ inflight' = [inflight EXCEPT !.fetch = @ + 1]
    /\ lastCall' = Call("generateQuiz", "pending", "")
    /\ UNCHANGED <<files, session, page, isGenerating>>
    /\ trip' = NoTrip
    /\ UNCHANGED sink

\* CatchAndFinally with a catch block that also drops the loaded quiz.
CatchAndFinally_ClearsQuiz(stage, message) ==
    /\ inflight[stage] > 0
    /\ loadingShown' = FALSE
    /\ inflight' = [inflight EXCEPT ![stage] = @ - 1]
    /\ lastCall' = Call("generateQuiz." \o stage, "caught", message)
    /\ quiz' = NoQuiz
    /\ currentQuestionIndex' = 0
    /\ answers' = NoAnswers
    /\ UNCHANGED <<files, page, isGenerating>>
    /\ trip' = NoTrip
    /\ UNCHANGED sink

\* catch (error) { showError(error.message) } finally { showLoading(false) }
\* of an invocation suspended at the given await.
CatchAndFinally(stage, message) ==
    /\ inflight[stage] > 0
    /\ loadingShown' = FALSE
    /\ inflight' = [inflight EXCEPT ![stage] = @ - 1]
    /\ lastCall' = Call("generateQuiz." \o stage, "caught", message)
    /\ UNCHANGED <<files, session, page, isGenerating>>
    /\ trip' = NoTrip
    /\ UNCHANGED sink

\* The fetch of an invocation rejects.
FetchRejects == CatchAndFinally("fetch", FetchErrorMsg)

\* The fetch of an invocation resolves with !response.ok.
ResponseNotOk == CatchAndFinally("fetch", FailedMsg)

\* The fetch of an invocation resolves with response.ok: on to `await response.json()`.
ResponseOk ==
    /\ inflight.fetch > 0
    /\ inflight' = [fetch |-> inflight.fetch - 1, json |-> inflight.json + 1]
    /\ lastCall' = Call("generateQuiz.fetch", "pending", "")
    /\ UNCHANGED <<files, session, page, isGenerating, loadingShown>>
    /\ trip' = NoTrip
    /\ UNCHANGED sink

\* response.json() of an invocation rejects (the body is not JSON).
JsonRejects == CatchAndFinally("json", JsonErrorMsg)

\* JsonResolves without `appState.currentQuestionIndex = 0`.
JsonResolves_KeepsIndex(newQuiz) ==
    /\ inflight.json > 0
    /\ quiz' = newQuiz
    /\ currentQuestionIndex' = currentQuestionIndex
    /\ answers' = NoAnswers
    /\ LET r == Redisplay(newQuiz, currentQuestionIndex, NoAnswers, quizContent,
                          prevDisabled, nextDisabled)
       IN  /\ quizContent' = r.content
           /\ prevDisabled' = r.prev
           /\ nextDisabled' = r.next
           /\ lastCall' = IF r.threw
                          THEN Call("generateQuiz.json", "caught", TypeErrorMsg)
                          ELSE Call("generateQuiz.json", "ok", r.error)
    /\ loadingShown' = FALSE
    /\ inflight' = [inflight EXCEPT !.json = @ - 1]
    /\ UNCHANGED <<files, isGenerating>>
    /\ trip' = NoTrip
    /\ loadedAt' = now
    /\ UNCHANGED <<exported, now>>

\* response.json() of an invocation resolves with data.quiz = newQuiz: the
\* three assignments, displayQuiz(), showSuccess, and the catch when
\* updateNavigation throws.
JsonResolves(newQuiz) ==
    /\ inflight.json > 0
    /\ quiz' = newQuiz
    /\ currentQuestionIndex' = 0
    /\ answers' = NoAnswers
    /\ LET r == Redisplay(newQuiz, 0, NoAnswers, quizContent, prevDisabled, nextDisabled)
       IN  /\ quizContent' = r.content
           /\ prevDisabled' = r.prev
           /\ nextDisabled' = r.next
           /\ lastCall' = IF r.threw
                          THEN Call("generateQuiz.json", "caught", TypeErrorMsg)
                          ELSE Call("generateQuiz.json", "ok", r.error)
    /\ loadingShown' = FALSE
    /\ inflight' = [inflight EXCEPT !.json = @ - 1]
    /\ UNCHANGED <<files, isGenerating>>
    /\ trip' = NoTrip
    /\ loadedAt' = now
    /\ UNCHANGED <<exported, now>>

----------------------------------------------------------------------------
\* Review

\* SelectRadio with a Blob that still refers to the live answers object.
SelectRadio_SharedAnswers(j) ==
    /\ j \in DOMAIN quizContent.radios
    /\ j # quizContent.checked
    /\ quizContent' = [quizContent EXCEPT !.checked = j]
    /\ answers' = saveAnswer(answers, currentQuestionIndex, quizContent')
    /\ lastCall' = Call("saveAnswer", "ok", "")
    /\ trip' = [stage |-> 1, index |-> currentQuestionIndex,
                value |-> answers'[currentQuestionIndex]]
    /\ exported' = IF exported.made
                   THEN [exported EXCEPT !.answers = StringifyAnswers(answers')]
                   ELSE exported
    /\ UNCHANGED <<files, quiz, currentQuestionIndex, isGenerating, inflight, loadingShown,
                   prevDisabled, nextDisabled, now, loadedAt>>

\* The user checks radio j of the rendered question: the change listener runs saveAnswer.
SelectRadio(j) ==
    /\ j \in DOMAIN quizContent.radios
    /\ j # quizContent.checked
    /\ quizContent' = [quizContent EXCEPT !.checked = j]
    /\ answers' = saveAnswer(answers, currentQuestionIndex, quizContent')
    /\ lastCall' = Call("saveAnswer", "ok", "")
    /\ trip' = [stage |-> 1, index |-> currentQuestionIndex,
                value |-> answers'[currentQuestionIndex]]
    /\ UNCHANGED <<files, quiz, currentQuestionIndex, isGenerating, inflight, loadingShown,
                   prevDisabled, nextDisabled>>
    /\ UNCHANGED sink

\* The user edits the short-answer input: the input listener runs saveAnswer.
TypeText(t) ==
    /\ quizContent.hasText
    /\ t # quizContent.text
    /\ quizContent' = [quizContent EXCEPT !.text = t]
    /\ answers' = saveAnswer(answers, currentQuestionIndex, quizContent')
    /\ lastCall' = Call("saveAnswer", "ok", "")
    /\ trip' = [stage |-> 1, index |-> currentQuestionIndex,
                value |-> answers'[currentQuestionIndex]]
    /\ UNCHANGED <<files, quiz, currentQuestionIndex, isGenerating, inflight, loadingShown,
                   prevDisabled, nextDisabled>>
    /\ UNCHANGED sink

\* Navigate with saveAnswer() called last, after displayQuestion() rendered the target.
Navigate_SaveAfterDisplay(op, delta) ==
    /\ currentQuestionIndex' = currentQuestionIndex + delta
    /\ LET r == Redisplay(quiz, currentQuestionIndex', answers, quizContent,
                          prevDisabled, nextDisabled)
       IN  /\ quizContent' = r.content
           /\ prevDisabled' = r.prev
           /\ nextDisabled' = r.next
           /\ answers' = saveAnswer(answers, currentQuestionIndex', r.content)
           /\ lastCall' = Call(op, IF r.threw THEN "uncaught" ELSE "ok", r.error)

\* Navigate with saveAnswer() called after the index moved.
Navigate_SaveAtTarget(op, delta) ==
    /\ currentQuestionIndex' = currentQuestionIndex + delta
    /\ answers' = saveAnswer(answers, currentQuestionIndex', quizContent)
    /\ LET r == Redisplay(quiz, currentQuestionIndex', answers', quizContent,
                          prevDisabled, nextDisabled)
       IN  /\ quizContent' = r.content
           /\ prevDisabled' = r.prev
           /\ nextDisabled' = r.next
           /\ lastCall' = Call(op, IF r.threw THEN "uncaught" ELSE "ok", r.error)

\* saveAnswer(); move the index by delta; displayQuestion(); updateNavigation();
Navigate(op, delta) ==
    /\ answers' = saveAnswer(answers, currentQuestionIndex, quizContent)
    /\ currentQuestionIndex' = currentQuestionIndex + delta
    /\ LET r == Redisplay(quiz, currentQuestionIndex', answers', quizContent,
                          prevDisabled, nextDisabled)
       IN  /\ quizContent' = r.content
           /\ prevDisabled' = r.prev
           /\ nextDisabled' = r.next
           /\ lastCall' = Call(op, IF r.threw THEN "uncaught" ELSE "ok", r.error)

\* The history after a navigation step that moved the index.
TripAfterMove ==
    trip' = IF trip.stage = 1 /\ trip.index = currentQuestionIndex
            THEN [trip EXCEPT !.stage = 2]
            ELSE IF trip.stage = 2 /\ trip.index = currentQuestionIndex'
            THEN [trip EXCEPT !.stage = 3]
            ELSE NoTrip

previousQuestion ==
    /\ IF currentQuestionIndex > 0
       THEN Navigate("previousQuestion", -1) /\ TripAfterMove
       ELSE /\ lastCall' = Call("previousQuestion", "noop", "")
            /\ trip' = NoTrip
            /\ UNCHANGED <<currentQuestionIndex, answers, page>>
    /\ UNCHANGED <<files, quiz, isGenerating, inflight, loadingShown>>
    /\ UNCHANGED sink

\* nextQuestion with the guard `currentQuestionIndex < quiz.length`.
nextQuestion_OffByOne ==
    /\ IF ~quiz.defined
       THEN /\ lastCall' = Call("nextQuestion", "uncaught", "")
            /\ trip' = NoTrip
            /\ UNCHANGED <<currentQuestionIndex, answers, page>>
       ELSE IF currentQuestionIndex < Len(quiz.items)
       THEN Navigate("nextQuestion", 1) /\ TripAfterMove
       ELSE /\ lastCall' = Call("nextQuestion", "noop", "")
            /\ trip' = NoTrip
            /\ UNCHANGED <<currentQuestionIndex, answers, page>>
    /\ UNCHANGED <<files, quiz, isGenerating, inflight, loadingShown>>
    /\ UNCHANGED sink

\* Reading appState.quiz.length throws when there is no quiz.
nextQuestion ==
    /\ IF ~quiz.defined
       THEN /\ lastCall' = Call("nextQuestion", "uncaught", "")
            /\ trip' = NoTrip
            /\ UNCHANGED <<currentQuestionIndex, answers, page>>
       ELSE IF currentQuestionIndex < Len(quiz.items) - 1
       THEN Navigate("nextQuestion", 1) /\ TripAfterMove
       ELSE /\ lastCall' = Call("nextQuestion", "noop", "")
            /\ trip' = NoTrip
            /\ UNCHANGED <<currentQuestionIndex, answers, page>>
    /\ UNCHANGED <<files, quiz, isGenerating, inflight, loadingShown>>
    /\ UNCHANGED sink

\* retakeQuiz without `appState.answers = {}`.
retakeQuiz_KeepsAnswers ==
    /\ currentQuestionIndex' = 0
    /\ answers' = answers
    /\ LET r == Redisplay(quiz, 0, answers, quizContent, prevDisabled, nextDisabled)
       IN  /\ quizContent' = r.content
           /\ prevDisabled' = r.prev
           /\ nextDisabled' = r.next
           /\ lastCall' = Call("retakeQuiz", IF r.threw THEN "uncaught" ELSE "ok", r.error)
    /\ UNCHANGED <<files, quiz, isGenerating, inflight, loadingShown>>
    /\ trip' = NoTrip
    /\ UNCHANGED sink

retakeQuiz ==
    /\ currentQuestionIndex' = 0
    /\ answers' = NoAnswers
    /\ LET r == Redisplay(quiz, 0, NoAnswers, quizContent, prevDisabled, nextDisabled)
       IN  /\ quizContent' = r.content
           /\ prevDisabled' = r.prev
           /\ nextDisabled' = r.next
           /\ lastCall' = Call("retakeQuiz", IF r.threw THEN "uncaught" ELSE "ok", r.error)
    /\ UNCHANGED <<files, quiz, isGenerating, inflight, loadingShown>>
    /\ trip' = NoTrip
    /\ UNCHANGED sink

\* downloadQuiz with the timestamp read when the question set was loaded.
downloadQuiz_LoadTimestamp ==
    /\ exported' = [made |-> TRUE,
                    questions |-> quiz,
                    answers |-> StringifyAnswers(answers),
                    timestamp |-> loadedAt]
    /\ lastCall' = Call("downloadQuiz", "ok", "")
    /\ trip' = NoTrip
    /\ UNCHANGED <<files, session, page, isGenerating, inflight, loadingShown, now, loadedAt>>

\* downloadQuiz that exports the displayed question only.
downloadQuiz_CurrentOnly ==
    /\ exported' = [made |-> TRUE,
                    questions |-> IF quiz.defined
                                  THEN Loaded(SubSeq(quiz.items, currentQuestionIndex + 1,
                                                     currentQuestionIndex + 1))
                                  ELSE quiz,
                    answers |-> StringifyAnswers(answers),
                    timestamp |-> now]
    /\ lastCall' = Call("downloadQuiz", "ok", "")
    /\ trip' = NoTrip
    /\ UNCHANGED <<files, session, page, isGenerating, inflight, loadingShown, now, loadedAt>>

\* downloadQuiz(): the Blob holds the text JSON.stringify made of the question
\* set, the answers and the clock's reading; nothing of appState is assigned.
downloadQuiz ==
    /\ exported' = [made |-> TRUE,
                    questions |-> quiz,
                    answers |-> StringifyAnswers(answers),
                    timestamp |-> now]
    /\ lastCall' = Call("downloadQuiz", "ok", "")
    /\ trip' = NoTrip
    /\ UNCHANGED <<files, session, page, isGenerating, inflight, loadingShown, now, loadedAt>>

\* Time passes between two events.
Tick ==
    /\ now < MaxTime
    /\ now' = now + 1
    /\ UNCHANGED <<files, session, page, isGenerating, inflight, loadingShown,
                   lastCall, trip, exported, loadedAt>>

----------------------------------------------------------------------------
\* The session, its files and its requests. downloadQuiz assigns nothing of
\* appState; it is taken with the clock in NextExport below.
Next ==
    \/ \E batch \in Batches : addFiles(batch)
    \/ \E index \in 1..MaxFiles : removeFile(index)
    \/ clearFiles
    \/ handleGenerateQuiz
    \/ generateQuiz
    \/ FetchRejects
    \/ ResponseNotOk
    \/ ResponseOk
    \/ JsonRejects
    \/ \E newQuiz \in ResponseData : JsonResolves(newQuiz)
    \/ \E j \in 1..Len(OptionLabels) : SelectRadio(j)
    \/ \E t \in TextPool \cup {EmptyStr} : TypeText(t)
    \/ previousQuestion
    \/ nextQuestion
    \/ retakeQuiz

Spec == Init /\ [][Next]_vars

\* The session with its export sink and a clock. The generator answers with a
\* longest question set or with a single short-answer question, and the user
\* asks for one generation at a time.
ExportResponses == { Loaded(Rotation(1, MaxQ)), Loaded(Rotation(3, 1)) }

generateQuizIdle == InflightCount = 0 /\ generateQuiz

NextExport ==
    \/ generateQuizIdle
    \/ ResponseOk
    \/ \E newQuiz \in ExportResponses : JsonResolves(newQuiz)
    \/ \E j \in 1..Len(OptionLabels) : SelectRadio(j)
    \/ \E t \in TextPool \cup {EmptyStr} : TypeText(t)
    \/ previousQuestion
    \/ nextQuestion
    \/ retakeQuiz
    \/ downloadQuiz
    \/ Tick

SpecExport == Init /\ [][NextExport]_vars

----------------------------------------------------------------------------
\* Properties

HasQuestions(qz) == qz.defined /\ Len(qz.items) >= 1
InRange(qz, index) == 0 <= index /\ index < Len(qz.items)
Clamp(x, lo, hi) == IF x < lo THEN lo ELSE IF x > hi THEN hi ELSE x

\* C1: whenever a question set is present (appState.quiz is not null),
\* 0 <= currentQuestionIndex < length of the question set.
C1_IndexInRange ==
    quiz.defined => InRange(quiz, currentQuestionIndex)

\* C2: at most one generation request is in flight: a generateQuiz call made
\* while an earlier one has not settled sends no request.
C2_SingleRequestInFlight ==
    InflightCount <= 1

\* C3: when the generator returns an empty question sequence while a question
\* set is loaded, the question set, currentQuestionIndex and answers stay
\* exactly as they were.
C3_EmptySetKeepsSession ==
    [][(HasQuestions(quiz) /\ JsonResolves(Loaded(<<>>))) => UNCHANGED session]_vars

C5_AnswerKeysValid ==
    \A k \in DOMAIN answers : quiz.defined /\ InRange(quiz, k)

\* C6: with a question set of length n >= 1 loaded, currentQuestionIndex is in
\* [0, n-1]; nextQuestion moves it to min(index + 1, n - 1) and
\* previousQuestion to max(index - 1, 0), and neither raises an error.
C6_NavigationClamped ==
    [][/\ HasQuestions(quiz') => InRange(quiz', currentQuestionIndex')
       /\ (HasQuestions(quiz) /\ lastCall'.op = "nextQuestion")
            => /\ currentQuestionIndex'
                    = Clamp(currentQuestionIndex + 1, 0, Len(quiz.items) - 1)
               /\ lastCall'.outcome \in {"ok", "noop"}
       /\ (HasQuestions(quiz) /\ lastCall'.op = "previousQuestion")
            => /\ currentQuestionIndex'
                    = Clamp(currentQuestionIndex - 1, 0, Len(quiz.items) - 1)
               /\ lastCall'.outcome \in {"ok", "noop"}]_vars

\* C6 witness: nextQuestion was called at the last question of a set of two or
\* more and did nothing.
C6_Witness ==
    /\ lastCall = Call("nextQuestion", "noop", "")
    /\ HasQuestions(quiz)
    /\ Len(quiz.items) >= 2
    /\ currentQuestionIndex = Len(quiz.items) - 1

\* C7: after an answer v was recorded at index i, one navigation step away and
\* the next navigation step back to i, answers[i] is v.
C7_RoundTripKeepsAnswer ==
    trip.stage = 3 =>
        /\ currentQuestionIndex = trip.index
        /\ trip.index \in DOMAIN answers
        /\ answers[trip.index] = trip.value

\* C7 witness: the round trip was made with a typed answer that holds a quote.
C7_Witness ==
    /\ trip.stage = 3
    /\ trip.value = <<"a", Quote, "b">>

\* C8: retakeQuiz with a question set loaded leaves answers empty,
\* currentQuestionIndex 0 and the question set as it was.
C8_RetakeResets ==
    [][(HasQuestions(quiz) /\ lastCall'.op = "retakeQuiz")
       => /\ answers' = NoAnswers
          /\ currentQuestionIndex' = 0
          /\ quiz' = quiz
          /\ lastCall'.outcome = "ok"]_vars

\* C8 witness: retakeQuiz has just run on a set of two or more questions.
C8_Witness ==
    /\ lastCall = Call("retakeQuiz", "ok", "")
    /\ HasQuestions(quiz)
    /\ Len(quiz.items) >= 2
    /\ answers = NoAnswers
    /\ currentQuestionIndex = 0

\* C9: after a generation that returns a non-empty question set,
\* currentQuestionIndex is 0, answers is empty, the question set is the one
\* returned and the displayed question is its element 0.
C9_LoadShowsFirst ==
    [][\A newQuiz \in ResponseData :
          (HasQuestions(newQuiz) /\ JsonResolves(newQuiz))
          => /\ currentQuestionIndex' = 0
             /\ answers' = NoAnswers
             /\ quiz' = newQuiz
             /\ quizContent'.question = <<newQuiz.items[1]>>
             /\ lastCall'.outcome = "ok"]_vars

\* C9 witness: a generation has just loaded a set of two or more questions.
C9_Witness ==
    /\ lastCall = Call("generateQuiz.json", "ok", "")
    /\ HasQuestions(quiz)
    /\ Len(quiz.items) >= 2
    /\ quizContent.question = <<quiz.items[1]>>

\* C10: while appState.files is empty no generation request is sent.
C10_NoRequestWithoutFiles ==
    [][Len(files) = 0 => inflight'.fetch <= inflight.fetch]_vars

\* What saveAnswer would read from the inputs on the page: the pending answer.
HasPending(content) == content.checked # 0 \/ content.hasText
PendingValue(content) ==
    IF content.checked # 0 THEN content.radios[content.checked] ELSE content.text

NavigationOps == {"previousQuestion", "nextQuestion"}

\* C11: a review operation (next, previous, retake) invoked while no question
\* set is loaded does not end with an uncaught exception.
C11_NoQuizNoUncaught ==
    (~quiz.defined /\ lastCall.op \in NavigationOps \cup {"retakeQuiz"})
        => lastCall.outcome # "uncaught"

\* C12 (as claimed): every navigation step, a clamped one included, writes the
\* pending answer of the current question to answers at the index held before
\* the step.
C12_EveryStepPersists ==
    [][(HasQuestions(quiz) /\ lastCall'.op \in NavigationOps /\ HasPending(quizContent))
       => /\ currentQuestionIndex \in DOMAIN answers'
          /\ answers'[currentQuestionIndex] = PendingValue(quizContent)]_vars

\* C12 (amended): a navigation step that moves the index writes the pending
\* answer at the index held before the step and changes no other entry (the
\* target index is not written); a step at an end of the set writes nothing.
C12_MovingStepPersists ==
    [][(HasQuestions(quiz) /\ lastCall'.op \in NavigationOps)
       => IF lastCall'.outcome = "noop"
          THEN answers' = answers /\ currentQuestionIndex' = currentQuestionIndex
          ELSE /\ currentQuestionIndex' # currentQuestionIndex
               /\ HasPending(quizContent)
                    => /\ DOMAIN answers' = DOMAIN answers \cup {currentQuestionIndex}
                       /\ answers'[currentQuestionIndex] = PendingValue(quizContent)
               /\ ~HasPending(quizContent) => DOMAIN answers' = DOMAIN answers
               /\ \A k \in DOMAIN answers \ {currentQuestionIndex} :
                      answers'[k] = answers[k]]_vars

\* C12 witness: nextQuestion has just moved on from an answered question to one
\* that has no entry.
C12_Witness ==
    /\ lastCall = Call("nextQuestion", "ok", "")
    /\ HasQuestions(quiz)
    /\ currentQuestionIndex >= 1
    /\ (currentQuestionIndex - 1) \in DOMAIN answers
    /\ currentQuestionIndex \notin DOMAIN answers

\* C16: recording an answer (a saveAnswer event) changes neither the question
\* set nor currentQuestionIndex, writes the entry of the current question and
\* changes no other entry of answers.
C16_RecordOnlyTouchesEntry ==
    [][lastCall'.op = "saveAnswer"
       => /\ quiz' = quiz
          /\ currentQuestionIndex' = currentQuestionIndex
          /\ DOMAIN answers' = DOMAIN answers \cup {currentQuestionIndex}
          /\ answers'[currentQuestionIndex] = PendingValue(quizContent')
          /\ \A k \in DOMAIN answers \ {currentQuestionIndex} :
                 answers'[k] = answers[k]]_vars

\* C16 witness: an answer has just been recorded while another question
\* already had one.
C16_Witness ==
    /\ lastCall.op = "saveAnswer"
    /\ HasQuestions(quiz)
    /\ currentQuestionIndex \in DOMAIN answers
    /\ \E k \in DOMAIN answers : k # currentQuestionIndex

\* C17: when a navigation step has displayed a question that has a recorded
\* answer, the inputs show that answer as selected / entered.
C17_DisplayShowsRecorded ==
    (/\ HasQuestions(quiz)
     /\ lastCall.op \in NavigationOps
     /\ lastCall.outcome = "ok"
     /\ currentQuestionIndex \in DOMAIN answers)
        => /\ HasPending(quizContent)
           /\ PendingValue(quizContent) = answers[currentQuestionIndex]

\* C18: the loading indicator is shown exactly while a generation request is in flight.
C18_LoadingIffInflight ==
    loadingShown <=> (InflightCount > 0)

C13_ExportMatchesSession ==
    (lastCall.op = "downloadQuiz" /\ HasQuestions(quiz))
        => /\ exported.made
           /\ exported.questions.defined
           /\ exported.questions.items = quiz.items
           /\ Len(exported.answers) = Cardinality(DOMAIN answers)
           /\ \A k \in DOMAIN answers :
                  \E i \in DOMAIN exported.answers :
                      exported.answers[i] = [key |-> NumberToString(k), value |-> answers[k]]

\* C13 witness: an export of a set of two or more questions with some, not
\* all, of them answered.
C13_Witness ==
    /\ lastCall.op = "downloadQuiz"
    /\ HasQuestions(quiz)
    /\ Len(quiz.items) >= 2
    /\ answers # NoAnswers
    /\ Cardinality(DOMAIN answers) < Len(quiz.items)
    /\ Len(exported.answers) = Cardinality(DOMAIN answers)

LiveOps ==
    {"saveAnswer", "previousQuestion", "nextQuestion", "retakeQuiz",
     "generateQuiz", "generateQuiz.fetch", "generateQuiz.json"}

\* C14: once an export was produced, recording an answer, navigating, retake
\* and regeneration leave its questions, answers and timestamp as they were.
C14_ExportIsACopy ==
    [][(exported.made /\ lastCall'.op \in LiveOps) => exported' = exported]_vars

\* C14 witness: after an export with answers recorded, a regeneration loaded
\* another question set and the export still holds the earlier one.
C14_Witness ==
    /\ exported.made
    /\ exported.answers # <<>>
    /\ lastCall.op = "generateQuiz.json"
    /\ HasQuestions(quiz)
    /\ exported.questions # quiz
    /\ answers = NoAnswers

\* C15: the timestamp of an export is the time at which the exported question
\* set was loaded.
C15_TimestampIsLoadTime ==
    (lastCall.op = "downloadQuiz" /\ quiz.defined) => exported.timestamp = loadedAt

\* C15 (amended): the timestamp of an export is the clock's reading at the export:
\* never earlier than the load of the exported question set and never earlier
\* than the timestamp of the export before it.
C15_TimestampIsExportTime ==
    [][(lastCall'.op = "downloadQuiz" /\ now' = now)
       => /\ exported'.timestamp = now
          /\ exported'.timestamp >= loadedAt
          /\ exported.made => exported'.timestamp >= exported.timestamp]_vars

\* C15 witness: an export made later than the load of its question set.
C15_Witness ==
    /\ lastCall.op = "downloadQuiz"
    /\ HasQuestions(quiz)
    /\ exported.timestamp > loadedAt

====
